---- MODULE Spec2Model ----
(***************************************************************************)
(* Model of the sequential CRNN speech-to-text notebook (seq_crnn.ipynb):  *)
(* vocabulary, SpeechDataset.__getitem__, custom_collate_fn, the CRNN      *)
(* output-length arithmetic, greedy_decoder, cer/wer and the validation    *)
(* step of train_and_validate.                                             *)
(*                                                                         *)
(* A Python string is modelled as a sequence of one-character strings, a   *)
(* tensor of class indices as a sequence of naturals, and a float quotient *)
(* as a numerator/denominator pair.                                        *)
(***************************************************************************)
EXTENDS Integers, Sequences, FiniteSets, TLC

VARIABLES
    \* ---- greedy_decoder ----
    arg_maxes,          \* [N][T] arg-max class index per sample and timestep
    decode,             \* per sample, the list of kept class indices
    decodes,            \* per sample, the decoded transcript
    dpc,                \* "input" | "decoded"
    \* ---- cer / wer ----
    target,             \* reference string
    prediction,         \* hypothesis string
    cer_val,            \* result of cer(target, prediction), or NoValue
    wer_val,            \* result of wer(target, prediction), or NoValue
    \* ---- dataset, batch assembly, validation step ----
    max_length_frames,  \* SpeechDataset.max_length_frames
    store,              \* the feature store: per key, true frame count and label
    items,              \* samples returned by __getitem__ for the current batch
    batch,              \* result of custom_collate_fn
    outputs,            \* per sample, the arg-max path of the model's output
    loss,               \* the CTC loss call: lengths handed over and outcome
    decoded_preds,      \* per sample: greedy_decoder's transcript, target, cer, wer
    bpc,                \* "fetch" | "collated" | "forwarded" | "lossed" | "decoded" | "failed"
                        \* (in the loop also "next" and the training positions "t_...")
    \* ---- train_and_validate, checkpoints, metrics log ----
    epochs,             \* parameter: the loop runs epochs start_epoch .. epochs - 1
    start_epoch,        \* parameter: first epoch of this run
    epoch,              \* loop variable
    tpc,                \* "train" | "val" | "save" | "saving" | "log" | "done" |
                        \* "aborted" | "crashed" | "idle"
    train_loader,       \* batches of the training subset, each a list of store indices
    val_loader,         \* batches of the validation subset
    bidx,               \* batches of the current phase already processed
    total_samples,      \* validation samples evaluated in this epoch
    params,             \* model weights and optimizer state, as update counts
    bn_buffers,         \* BatchNorm running statistics, as an update count
    ckpt_files,         \* epoch -> file ./checkpoints/checkpoint_epoch_<e>.pth.tar
    log,                \* lines of training_metrics.txt
    run,                \* number of the current run of train_and_validate
    resumed_from,       \* epoch recorded in the checkpoint loaded before this run, or -1
    trained,            \* history: epoch -> training phases started, over all runs
    events              \* history: the steps of the current run, in order

decoderVars == <<arg_maxes, decode, decodes, dpc>>
metricVars  == <<target, prediction, cer_val, wer_val>>
batchVars   == <<max_length_frames, store, items, batch, outputs, loss, decoded_preds, bpc>>
trainVars   == <<epochs, start_epoch, epoch, tpc, train_loader, val_loader, bidx,
                 total_samples, params, bn_buffers, ckpt_files, log, run,
                 resumed_from, trained, events>>
vars        == <<decoderVars, metricVars, batchVars, trainVars>>

(***************************************************************************)
(* Bounds of the model.                                                    *)
(***************************************************************************)
MaxPathLen == 4     \* longest enumerated raw arg-max path
MaxClass   == 3     \* enumerated class indices are 0..MaxClass
MaxStrLen  == 3     \* longest enumerated metric string
MaxBatch   == 2     \* most samples in the store / in one batch
MaxFrames  == 3     \* enumerated true frame counts are 0..MaxFrames
MaxEpochs  == 2     \* largest enumerated value of the parameter epochs
MaxRuns    == 2     \* runs of train_and_validate (the first and the restarts)

Max(a, b) == IF a >= b THEN a ELSE b
Min(a, b) == IF a <= b THEN a ELSE b

SeqsUpTo(S, n) == UNION {[1..k -> S] : k \in 0..n}

NoValue == [raised |-> FALSE, num |-> -1, den |-> 1]

(***************************************************************************)
(* Vocabulary.                                                             *)
(***************************************************************************)
alphabet ==
    << "a", "b", "c", "d", "e", "f", "g", "h", "i", "j", "k", "l", "m",
       "n", "o", "p", "q", "r", "s", "t", "u", "v", "w", "x", "y", "z", " " >>

blank_label == 0

\* build_vocab: '<blank>' -> 0, then the alphabet enumerated from 1
vocab ==
    [c \in {"<blank>"} \cup {alphabet[i] : i \in 1..Len(alphabet)} |->
        IF c = "<blank>" THEN 0
        ELSE CHOOSE i \in 1..Len(alphabet) : alphabet[i] = c]

VOCAB_SIZE == Cardinality(DOMAIN vocab)

\* inv_vocab = {v: k for k, v in vocab.items()}
inv_vocab ==
    [v \in {vocab[k] : k \in DOMAIN vocab} |-> CHOOSE k \in DOMAIN vocab : vocab[k] = v]

\* encode_label: [vocab[char] for char in label]
encode_label(label) == [i \in 1..Len(label) |-> vocab[label[i]]]

(***************************************************************************)
(* greedy_decoder                                                          *)
(***************************************************************************)
\* Python indexing seq[k] for a 0-based k, negative k counting from the end
PyIndex(seq, k) == IF k < 0 THEN seq[Len(seq) + k + 1] ELSE seq[k + 1]

\* `index != blank_label`
NotBlankOffByOne(index) == index # blank_label + 1
NotBlank(index) == index # blank_label

\* `j != 0 and index == args[j - 1]`
IsRepeatNoGuard(args, j, index) == index = PyIndex(args, j - 1)
IsRepeatNever(args, j, index) == FALSE
IsRepeat(args, j, index) == j # 0 /\ index = PyIndex(args, j - 1)

\* the inner loop `for j, index in enumerate(args)` from position j on
RECURSIVE DecodeLoop(_, _, _)
DecodeLoop(args, j, acc) ==
    IF j >= Len(args) THEN acc
    ELSE LET index == PyIndex(args, j) IN
         IF NotBlank(index)
           THEN IF IsRepeat(args, j, index)
                  THEN DecodeLoop(args, j + 1, acc)
                  ELSE DecodeLoop(args, j + 1, Append(acc, index))
           ELSE DecodeLoop(args, j + 1, acc)

DecodePath(args) == DecodeLoop(args, 0, <<>>)

\* ''.join([labels[k] for k in decode])
JoinLabels(labels, dec) == [i \in 1..Len(dec) |-> labels[dec[i]]]

\* the outer loop over the samples of the batch
greedy_decoder(paths, labels) ==
    [i \in 1..Len(paths) |-> JoinLabels(labels, DecodePath(paths[i]))]

Classes == 0..MaxClass
ScenarioPaths == { <<0, 3, 3, 0, 5, 5, 5, 0>>, <<3, 3, 0, 3>> }
RawPaths == SeqsUpTo(Classes, MaxPathLen) \cup ScenarioPaths

DecoderIdle ==
    /\ arg_maxes = <<>> /\ decode = <<>> /\ decodes = <<>> /\ dpc = "input"

MetricIdle ==
    /\ target = <<>> /\ prediction = <<>> /\ cer_val = NoValue /\ wer_val = NoValue

NoBatch ==
    [ok |-> FALSE, error |-> "none", mfccs_padded |-> <<>>, labels_padded |-> <<>>,
     input_lengths |-> <<>>, label_lengths |-> <<>>]

NoOutputs == [ok |-> FALSE, error |-> "none", paths |-> <<>>]

NoLoss == [ok |-> FALSE, error |-> "none", input_lengths |-> <<>>, feasible |-> <<>>]

BatchIdle ==
    /\ max_length_frames = 0 /\ store = <<>> /\ items = <<>>
    /\ batch = NoBatch /\ outputs = NoOutputs /\ loss = NoLoss /\ decoded_preds = <<>>
    /\ bpc = "idle"

NoCheckpoint == [status |-> "absent", epoch |-> -1, state_dict |-> -1,
                 buffers |-> -1, optimizer |-> -1]

InitialParams == [state_dict |-> 0, optimizer |-> 0]

TrainIdle ==
    /\ epochs = 0 /\ start_epoch = 0 /\ epoch = 0 /\ tpc = "idle"
    /\ train_loader = <<>> /\ val_loader = <<>> /\ bidx = 0 /\ total_samples = 0
    /\ params = InitialParams /\ bn_buffers = 0
    /\ ckpt_files = <<>> /\ log = <<>> /\ run = 0 /\ resumed_from = -1
    /\ trained = <<>> /\ events = <<>>

\* one sample, as at the inference entry point
InitDecoder ==
    /\ \E p \in RawPaths : arg_maxes = <<p>>
    /\ decode = <<>>
    /\ decodes = <<>>
    /\ dpc = "input"
    /\ MetricIdle
    /\ BatchIdle
    /\ TrainIdle

GreedyDecode ==
    /\ dpc = "input"
    /\ decode' = [i \in 1..Len(arg_maxes) |-> DecodePath(arg_maxes[i])]
    /\ decodes' = greedy_decoder(arg_maxes, inv_vocab)
    /\ dpc' = "decoded"
    /\ UNCHANGED <<arg_maxes, metricVars, batchVars, trainVars>>

NextDecoder == GreedyDecode

SpecDecoder == InitDecoder /\ [][NextDecoder]_vars

(***************************************************************************)
(* Properties of greedy_decoder.                                           *)
(***************************************************************************)
ThePath    == arg_maxes[1]
TheDecode  == decode[1]
Decoded    == dpc = "decoded"

\* reference, pass 1: keep the first element of every run of equal indices
CollapseRuns(p) ==
    LET keep == {i \in 1..Len(p) : i = 1 \/ p[i] # p[i - 1]}
        RECURSIVE Pick(_)
        Pick(i) == IF i > Len(p) THEN <<>>
                   ELSE IF i \in keep THEN <<p[i]>> \o Pick(i + 1) ELSE Pick(i + 1)
    IN Pick(1)

\* reference, pass 2: remove every blank
RemoveBlanks(p) ==
    LET nonBlank(x) == x # 0 IN SelectSeq(p, nonBlank)

\* C1: for every raw arg-max path the single-pass result of greedy_decoder
\* equals the two-pass reference (collapse runs, then remove blanks), and the
\* path [0,3,3,0,5,5,5,0] decodes to [3,5].
C1_SinglePassEqualsReference ==
    Decoded =>
        /\ TheDecode = RemoveBlanks(CollapseRuns(ThePath))
        /\ decodes[1] = JoinLabels(inv_vocab, RemoveBlanks(CollapseRuns(ThePath)))
        /\ (ThePath = <<0, 3, 3, 0, 5, 5, 5, 0>> => TheDecode = <<3, 5>>)

C1_Witness ==
    Decoded /\ ThePath = <<0, 3, 3, 0, 5, 5, 5, 0>> /\ decodes[1] = <<"c", "e">>

\* p emits each symbol of lbl once, as a run of one or more frames, in order,
\* with at least one blank between consecutive symbols (blanks may also lead
\* and trail)
RECURSIVE InGap(_, _), InRun(_, _)
InGap(p, lbl) ==
    IF p = <<>> THEN lbl = <<>>
    ELSE IF Head(p) = 0 THEN InGap(Tail(p), lbl)
    ELSE lbl # <<>> /\ Head(p) = Head(lbl) /\ InRun(Tail(p), lbl)
InRun(p, lbl) ==
    IF p = <<>> THEN Tail(lbl) = <<>>
    ELSE IF Head(p) = Head(lbl) THEN InRun(Tail(p), lbl)
    ELSE IF Head(p) = 0 THEN InGap(Tail(p), Tail(lbl))
    ELSE FALSE

IsSpikePath(p, lbl) == InGap(p, lbl)

\* label sequences with no blank and no two adjacent equal symbols
CleanLabels ==
    {l \in SeqsUpTo(1..MaxClass, MaxPathLen) :
        \A i \in 2..Len(l) : l[i] # l[i - 1]}

\* C2: round trip: a raw path that emits each symbol of a label sequence
\* (no blank, no adjacent equal symbols) once, separated by blanks, decodes to
\* exactly that label sequence.
C2_RoundTrip ==
    Decoded => \A l \in CleanLabels : IsSpikePath(ThePath, l) => TheDecode = l

C2_Witness ==
    Decoded /\ ThePath = <<1, 1, 0, 2>> /\ IsSpikePath(ThePath, <<1, 2>>)
            /\ TheDecode = <<1, 2>>

\* C3: the decoded sequence is never longer than the raw path and never
\* contains the blank index.
C3_ShorterAndBlankFree ==
    Decoded =>
        /\ Len(TheDecode) <= Len(ThePath)
        /\ \A i \in 1..Len(TheDecode) : TheDecode[i] # 0
        /\ \A i \in 1..Len(decodes[1]) : decodes[1][i] # "<blank>"

C3_Witness ==
    Decoded /\ ThePath = <<0, 2, 0, 0>> /\ Len(TheDecode) = 1

\* C4: a blank between two occurrences of the same symbol prevents the
\* collapse: [s, s, 0, s] decodes to [s, s].
C4_BlankSeparatesDoubles ==
    Decoded => \A s \in 1..MaxClass : ThePath = <<s, s, 0, s>> => TheDecode = <<s, s>>

C4_Witness ==
    Decoded /\ ThePath = <<3, 3, 0, 3>> /\ TheDecode = <<3, 3>>

\* p is blanks, then k >= 1 copies of s, then blanks
IsSingleRun(p, s) ==
    \E lo \in 1..Len(p) : \E hi \in lo..Len(p) :
        \A t \in 1..Len(p) : p[t] = IF lo <= t /\ t <= hi THEN s ELSE 0

\* C5: k >= 1 consecutive copies of s, optionally surrounded by blanks, decode
\* to the same one-symbol output as a single s.
C5_RunIsOneSymbol ==
    Decoded => \A s \in 1..MaxClass :
        IsSingleRun(ThePath, s) => /\ TheDecode = <<s>>
                                   /\ TheDecode = DecodePath(<<s>>)

C5_Witness ==
    Decoded /\ ThePath = <<0, 2, 2, 0>> /\ TheDecode = <<2>>

(***************************************************************************)
(* Eval metrics: cer and wer.                                              *)
(***************************************************************************)
Min3(a, b, c) == Min(a, Min(b, c))

\* Python's a / b on ints: ZeroDivisionError when b = 0, else the quotient
Divide(a, b) ==
    IF b = 0 THEN [raised |-> TRUE, num |-> 0, den |-> 0]
    ELSE [raised |-> FALSE, num |-> a, den |-> b]

\* Levenshtein.distance(a, b): row-by-row dynamic programme with unit weights.
\* A row is stored 1-based: row[j + 1] is the distance to the first j items of b.
SubstCostTwo(x, y) == IF x = y THEN 0 ELSE 2
SubstCost(x, y) == IF x = y THEN 0 ELSE 1

\* (a row is never empty: the tests on Len(acc) and Len(prev) only make the cells
\* and rows so far be evaluated before the next one is started)
LevRow(prev, i, ai, b) ==
    LET RECURSIVE Build(_, _)
        Build(j, acc) ==
            IF j > Len(b) \/ Len(acc) = 0 THEN acc
            ELSE Build(j + 1,
                       Append(acc, Min3(prev[j + 1] + 1,
                                        acc[j] + 1,
                                        prev[j] + SubstCost(ai, b[j]))))
    IN Build(1, <<i>>)

lev_distance(a, b) ==
    LET RECURSIVE Rows(_, _)
        Rows(i, prev) ==
            IF i > Len(a) \/ Len(prev) = 0 THEN prev[Len(b) + 1]
            ELSE Rows(i + 1, LevRow(prev, i, a[i], b))
    IN Rows(1, [j \in 1..(Len(b) + 1) |-> j - 1])

\* str.split(): the maximal runs of non-whitespace characters
RECURSIVE SplitFrom(_, _, _)
SplitFrom(s, word, words) ==
    IF s = <<>> \/ Len(word) + Len(words) < 0
      THEN (IF word = <<>> THEN words ELSE Append(words, word))
    ELSE IF Head(s) = " "
           THEN SplitFrom(Tail(s), <<>>, IF word = <<>> THEN words ELSE Append(words, word))
           ELSE SplitFrom(Tail(s), Append(word, Head(s)), words)

Split(s) == SplitFrom(s, <<>>, <<>>)

\* ' '.join(words)
RECURSIVE JoinSpace(_)
JoinSpace(words) ==
    IF words = <<>> THEN <<>>
    ELSE IF Len(words) = 1 THEN words[1]
    ELSE words[1] \o <<" ">> \o JoinSpace(Tail(words))

cerNoGuard(t, p) == Divide(lev_distance(t, p), Len(t))
cer(t, p) == Divide(lev_distance(t, p), Max(Len(t), 1))

wer(t, p) ==
    LET target_words == Split(t)
        prediction_words == Split(p)
    IN Divide(lev_distance(JoinSpace(target_words), JoinSpace(prediction_words)),
              Max(Len(target_words), 1))

MetricChars == {"a", "b", " "}
MetricStrings == SeqsUpTo(MetricChars, MaxStrLen)
ScenarioPairs ==
    { << <<"c", "a", "t">>, <<>> >>,
      << <<"c", "a", "t">>, <<"b", "a", "t">> >>,
      << <<"a", "b", " ", "b", "a">>, <<"b", "a", " ", "b", "a">> >> }

InitMetrics ==
    /\ \E pair \in (MetricStrings \X MetricStrings) \cup ScenarioPairs :
          /\ target = pair[1]
          /\ prediction = pair[2]
    /\ cer_val = NoValue
    /\ wer_val = NoValue
    /\ DecoderIdle
    /\ BatchIdle
    /\ TrainIdle

Cer ==
    /\ cer_val = NoValue
    /\ cer_val' = cer(target, prediction)
    /\ UNCHANGED <<target, prediction, wer_val, decoderVars, batchVars, trainVars>>

Wer ==
    /\ wer_val = NoValue
    /\ wer_val' = wer(target, prediction)
    /\ UNCHANGED <<target, prediction, cer_val, decoderVars, batchVars, trainVars>>

NextMetrics == Cer \/ Wer

SpecMetrics == InitMetrics /\ [][NextMetrics]_vars

(***************************************************************************)
(* Properties of cer and wer.                                              *)
(***************************************************************************)
\* the unit-cost edit distance by its recursive definition
RECURSIVE EditDist(_, _)
EditDist(a, b) ==
    IF a = <<>> THEN Len(b)
    ELSE IF b = <<>> THEN Len(a)
    ELSE Min3(EditDist(Tail(a), b) + 1,
              EditDist(a, Tail(b)) + 1,
              EditDist(Tail(a), Tail(b)) + (IF Head(a) = Head(b) THEN 0 ELSE 1))

\* q is the quotient n / d
IsQuotient(q, n, d) == ~q.raised /\ q.den # 0 /\ q.num * d = n * q.den

\* C6: cer returns without raising, also for empty strings, and equals the
\* edit distance divided by max(len(target), 1); cer("cat", "") = 3/3 and
\* cer("cat", "bat") = 1/3.
C6_CerIsNormalisedEditDistance ==
    cer_val # NoValue =>
        /\ IsQuotient(cer_val, EditDist(target, prediction), Max(Len(target), 1))
        /\ (target = <<"c", "a", "t">> /\ prediction = <<>>
                => IsQuotient(cer_val, 3, 3))
        /\ (target = <<"c", "a", "t">> /\ prediction = <<"b", "a", "t">>
                => IsQuotient(cer_val, 1, 3))

C6_Witness ==
    target = <<>> /\ prediction = <<"a", "b">> /\ IsQuotient(cer_val, 2, 1)

\* C7: wer equals the edit distance between the two word sequences (each word
\* one symbol) divided by max(number of target words, 1).
C7_WerIsWordLevel ==
    wer_val # NoValue =>
        IsQuotient(wer_val, EditDist(Split(target), Split(prediction)),
                   Max(Len(Split(target)), 1))

(***************************************************************************)
(* SpeechDataset.__getitem__ and custom_collate_fn.                        *)
(*                                                                         *)
(* A feature matrix [F, T] is modelled by its time axis: `data` true       *)
(* frames (a prefix of the stored utterance) followed by `pad` zero frames.*)
(***************************************************************************)
TimeLen(m) == m.data + m.pad

\* __getitem__: pad or truncate to max_length_frames, encode the label
GetItemResult(cap, sample) ==
    LET padding_length == cap - sample.frames
        mfccs == IF padding_length > 0
                   THEN [data |-> sample.frames, pad |-> padding_length]
                 ELSE IF padding_length < 0
                   THEN [data |-> cap, pad |-> 0]
                 ELSE [data |-> sample.frames, pad |-> 0]
        label == encode_label(sample.label)
    IN [mfccs |-> mfccs, label |-> label,
        input_length |-> cap, label_length |-> Len(label)]

SeqMax(f) == IF Len(f) = 0 THEN 0
             ELSE CHOOSE x \in {f[i] : i \in 1..Len(f)} : \A i \in 1..Len(f) : f[i] <= x

\* pad_sequence(labels, batch_first=True, padding_value=0)
PadLabels(labels) ==
    LET max_len == SeqMax([i \in 1..Len(labels) |-> Len(labels[i])])
    IN [i \in 1..Len(labels) |->
          [j \in 1..max_len |-> IF j <= Len(labels[i]) THEN labels[i][j] ELSE 0]]

\* pad_sequence(mfccs, ...) pads along dimension 0 (the channel axis, always
\* of size 1) and needs the trailing dimensions [F, T] of all tensors to agree
\* with those of the first (a time axis of size 1 is broadcast)
PadMfccsOk(mfccs) ==
    \A i \in 1..Len(mfccs) :
        TimeLen(mfccs[i]) = TimeLen(mfccs[1]) \/ TimeLen(mfccs[i]) = 1

custom_collate_fn_EmptyOk(b) ==
    [ok |-> TRUE, error |-> "none",
     mfccs_padded  |-> [i \in 1..Len(b) |-> b[i].mfccs],
     labels_padded |-> PadLabels([i \in 1..Len(b) |-> b[i].label]),
     input_lengths |-> [i \in 1..Len(b) |-> b[i].input_length],
     label_lengths |-> [i \in 1..Len(b) |-> b[i].label_length]]
custom_collate_fn(b) ==
    IF b = <<>>
      THEN \* zip(*batch) yields nothing to unpack into the four names
           [NoBatch EXCEPT !.error = "ValueError"]
    ELSE IF ~PadMfccsOk([i \in 1..Len(b) |-> b[i].mfccs])
      THEN [NoBatch EXCEPT !.error = "RuntimeError"]
    ELSE [ok |-> TRUE, error |-> "none",
          mfccs_padded  |-> [i \in 1..Len(b) |-> b[i].mfccs],
          labels_padded |-> PadLabels([i \in 1..Len(b) |-> b[i].label]),
          input_lengths |-> [i \in 1..Len(b) |-> b[i].input_length],
          label_lengths |-> [i \in 1..Len(b) |-> b[i].label_length]]

\* time dimension of the padded feature stack
BatchTimeDim(b) == TimeLen(b.mfccs_padded[1])

CapChoices == {2, 8, 247}
LabelChoices == { <<>>, <<"a">>, <<"b", "b">>, <<"c", "a", "b">> }
Samples == [frames : 0..MaxFrames, label : LabelChoices]
ScenarioStores ==
    { << [frames |-> 5, label |-> <<"a">>],
         [frames |-> 8, label |-> <<"b", "b">>],
         [frames |-> 3, label |-> <<"c", "a", "b">>] >> }

InitBatch ==
    /\ max_length_frames \in CapChoices
    /\ store \in SeqsUpTo(Samples, MaxBatch) \cup ScenarioStores
    /\ items = <<>>
    /\ batch = NoBatch
    /\ outputs = NoOutputs
    /\ loss = NoLoss
    /\ decoded_preds = <<>>
    /\ bpc = "fetch"
    /\ DecoderIdle
    /\ MetricIdle
    /\ TrainIdle

\* the loader fetches the next sample of the batch
GetItem ==
    /\ bpc = "fetch"
    /\ Len(items) < Len(store)
    /\ items' = Append(items, GetItemResult(max_length_frames, store[Len(items) + 1]))
    /\ UNCHANGED <<max_length_frames, store, batch, outputs, loss, decoded_preds, bpc,
                   decoderVars, metricVars, trainVars>>

\* the fetched samples are collated into a batch
Collate ==
    /\ bpc = "fetch"
    /\ batch' = custom_collate_fn(items)
    /\ bpc' = IF batch'.ok THEN "collated" ELSE "failed"
    /\ UNCHANGED <<max_length_frames, store, items, outputs, loss, decoded_preds,
                   decoderVars, metricVars, trainVars>>

NextBatch == GetItem \/ Collate

SpecBatch == InitBatch /\ [][NextBatch]_vars

(***************************************************************************)
(* CRNN.forward and one validation batch of train_and_validate.            *)
(***************************************************************************)
\* two MaxPool2d(2) stages, each halving (floor) the time axis; the 3x3
\* convolutions with padding 1 keep it
CrnnOutLen(T) == (T \div 2) \div 2

\* the value the loop hands to the loss as every sample's input length
processed_seq_length == 61

\* The network's scores are unconstrained; its arg-max path over Tp timesteps
\* is drawn from the paths that repeat a two-step pattern <<c, 0>> or <<c, c>>.
NetPaths(Tp) ==
    {[t \in 1..Tp |-> IF t % 2 = 1 THEN c ELSE d] : c \in Classes, d \in {0}} \cup
    {[t \in 1..Tp |-> c] : c \in Classes}

\* timesteps a label needs under CTC: its length plus one blank per adjacent repeat
CtcRequired(label) ==
    Len(label) + Cardinality({i \in 2..Len(label) : label[i] = label[i - 1]})

\* nn.CTCLoss(blank=0, zero_infinity=True)(log_probs[Tp, N, C], targets,
\* input_lengths, target_lengths): input lengths beyond Tp are an error, an
\* infeasible alignment is an infinite loss that zero_infinity turns into 0
CtcLossStrict(Tp, labels_padded, input_lengths, label_lengths) ==
    IF \E i \in 1..Len(input_lengths) :
           \/ input_lengths[i] > Tp \/ input_lengths[i] < 0
           \/ CtcRequired(SubSeq(labels_padded[i], 1, label_lengths[i])) > input_lengths[i]
      THEN [NoLoss EXCEPT !.error = "RuntimeError", !.input_lengths = input_lengths]
    ELSE [ok |-> TRUE, error |-> "none", input_lengths |-> input_lengths,
          feasible |-> [i \in 1..Len(input_lengths) |-> TRUE]]
CtcLoss(Tp, labels_padded, input_lengths, label_lengths) ==
    IF \E i \in 1..Len(input_lengths) : input_lengths[i] > Tp \/ input_lengths[i] < 0
      THEN [NoLoss EXCEPT !.error = "RuntimeError", !.input_lengths = input_lengths]
    ELSE [ok |-> TRUE, error |-> "none", input_lengths |-> input_lengths,
          feasible |-> [i \in 1..Len(input_lengths) |->
              CtcRequired(SubSeq(labels_padded[i], 1, label_lengths[i]))
                  <= input_lengths[i]]]

\* ''.join([inv_vocab.get(id, '') for id in label_tensor if id not in (0, 1)])
ValTarget(label_tensor) ==
    LET kept(id) == id \notin {0, 1}
        ids == SelectSeq(label_tensor, kept)
    IN [i \in 1..Len(ids) |-> inv_vocab[ids[i]]]

\* outputs = model(mels), on the collated batch
ForwardStep(forwarded) ==
    /\ LET Tp == CrnnOutLen(BatchTimeDim(batch))
           N  == Len(batch.mfccs_padded)
       IN IF Tp = 0
            THEN \* the pooling stage rejects an empty output
                 /\ outputs' = [NoOutputs EXCEPT !.error = "RuntimeError"]
                 /\ bpc' = "failed"
            ELSE /\ \E ps \in [1..N -> NetPaths(Tp)] :
                        outputs' = [ok |-> TRUE, error |-> "none", paths |-> ps]
                 /\ bpc' = forwarded
    /\ UNCHANGED <<max_length_frames, store, items, batch, loss, decoded_preds,
                   decoderVars, metricVars>>

\* outputs = model(mels) in the validation loop
ValForward ==
    /\ bpc = "collated"
    /\ ForwardStep("forwarded")
    /\ UNCHANGED trainVars

\* input_lengths = torch.full(..., processed_seq_length); loss = criterion(...)
LossStep(lossed) ==
    /\ LET N == Len(batch.mfccs_padded)
           input_lengths == [i \in 1..N |-> processed_seq_length]
       IN loss' = CtcLoss(Len(outputs.paths[1]), batch.labels_padded,
                          input_lengths, batch.label_lengths)
    /\ bpc' = IF loss'.ok THEN lossed ELSE "failed"
    /\ UNCHANGED <<max_length_frames, store, items, batch, outputs, decoded_preds,
                   decoderVars, metricVars>>

\* the loss of a validation batch
ValLoss ==
    /\ bpc = "forwarded"
    /\ LossStep("lossed")
    /\ UNCHANGED trainVars

\* decoded_preds = greedy_decoder(outputs, inv_vocab, ...); per-sample cer / wer
DecodeStep ==
    /\ LET preds == greedy_decoder(outputs.paths, inv_vocab)
       IN decoded_preds' =
            [i \in 1..Len(preds) |->
               LET tgt == ValTarget(batch.labels_padded[i])
               IN [prediction |-> preds[i],
                   scanned    |-> Len(outputs.paths[i]),
                   target     |-> tgt,
                   cer        |-> cer(tgt, preds[i]),
                   wer        |-> wer(tgt, preds[i])]]
    /\ bpc' = "decoded"
    /\ UNCHANGED <<max_length_frames, store, items, batch, outputs, loss,
                   decoderVars, metricVars>>

\* decoding and metrics of a validation batch
ValDecode ==
    /\ bpc = "lossed"
    /\ DecodeStep
    /\ UNCHANGED trainVars

NextVal == GetItem \/ Collate \/ ValForward \/ ValLoss \/ ValDecode

SpecVal == InitBatch /\ [][NextVal]_vars

(***************************************************************************)
(* train_and_validate: epochs of training batches, validation batches, the *)
(* checkpoint save and the metrics line.  The float sums of losses and     *)
(* error rates are not kept; total_samples, the divisor, is.               *)
(***************************************************************************)
\* default of SpeechDataset(hdf5_path, vocab), as the notebook builds it
default_max_length_frames == 247

\* a label one symbol longer than the timesteps the loss is given
MalformedLabel == [i \in 1..(processed_seq_length + 1) |-> "b"]

\* a label of one repeated symbol: under CTC it needs a blank between any two
\* symbols, 2 * Len - 1 timesteps, more than the loss is given
RepeatedLabel == [i \in 1..((processed_seq_length + 3) \div 2) |-> "b"]

TrainStore ==
    << [frames |-> 100, label |-> <<"b", "c">>],
       [frames |-> 247, label |-> <<"c", "a", "b">>],
       [frames |-> 247, label |-> MalformedLabel],
       [frames |-> 300, label |-> <<"b">>],
       [frames |-> 120, label |-> RepeatedLabel] >>

\* train / validation subsets cut into batches of store indices
LoaderChoices ==
    { [train |-> << <<1>> >>,           val |-> << <<2>> >>],
      [train |-> << <<3>>, <<1>> >>,    val |-> << <<2>> >>],
      [train |-> << <<1, 3>>, <<4>> >>, val |-> << <<2>> >>],
      [train |-> << <<1>> >>,           val |-> << <<5>>, <<2>> >>],
      [train |-> << <<4>>, <<1>> >>,    val |-> << <<2, 5>> >>] }

EpochRange == 0..(MaxEpochs - 1)

Event(phase, step) == [epoch |-> epoch, phase |-> phase, batch |-> bidx, step |-> step]

\* the loader's next batch: __getitem__ for each index, then custom_collate_fn
FetchBatch(indices, collated) ==
    /\ items' = [k \in 1..Len(indices) |->
                    GetItemResult(max_length_frames, store[indices[k]])]
    /\ batch' = custom_collate_fn(items')
    /\ bpc' = IF batch'.ok THEN collated ELSE "failed"
    /\ outputs' = NoOutputs
    /\ loss' = NoLoss
    /\ decoded_preds' = <<>>
    /\ UNCHANGED <<max_length_frames, store, decoderVars, metricVars>>

\* an exception leaves the loop
AfterStep == IF bpc' = "failed" THEN "aborted" ELSE tpc

\* optimizer.step()
OptimizerStepNoop(p) == p
OptimizerStep(p) ==
    [state_dict |-> p.state_dict + 1, optimizer |-> p.optimizer + 1]

\* the order of the phases inside one epoch
NextPhaseSaveFirst(phase) ==
    CASE phase = "train" -> "save"
      [] phase = "val"   -> "save"
      [] phase = "save"  -> "log"
      [] phase = "log"   -> "epoch"
NextPhase(phase) ==
    CASE phase = "train" -> "val"
      [] phase = "val"   -> "save"
      [] phase = "save"  -> "log"
      [] phase = "log"   -> "epoch"

\* open("training_metrics.txt", "a") ... file.write(line)
WriteLog(lines, line) == Append(lines, line)

InitLoop ==
    /\ max_length_frames = default_max_length_frames
    /\ store = TrainStore
    /\ items = <<>>
    /\ batch = NoBatch
    /\ outputs = NoOutputs
    /\ loss = NoLoss
    /\ decoded_preds = <<>>
    /\ bpc = "next"
    /\ epochs \in 1..MaxEpochs
    /\ start_epoch \in 0..epochs
    /\ epoch = start_epoch
    /\ tpc = "epoch"
    /\ bidx = 0
    /\ total_samples = 0
    /\ params = InitialParams
    /\ bn_buffers = 0
    /\ ckpt_files = [e \in EpochRange |-> NoCheckpoint]
    /\ log = <<>>
    /\ run = 1
    /\ resumed_from = -1
    /\ trained = [e \in EpochRange |-> 0]
    /\ events = <<>>
    /\ DecoderIdle
    /\ MetricIdle

InitTrain ==
    /\ InitLoop
    /\ \E l \in LoaderChoices : train_loader = l.train /\ val_loader = l.val

\* `for epoch in range(start_epoch, epochs)`, then model.train() and the resets
LoopHead ==
    /\ tpc = "epoch"
    /\ IF epoch < epochs
         THEN /\ tpc' = "train"
              /\ trained' = [trained EXCEPT ![epoch] = @ + 1]
         ELSE /\ tpc' = "done"
              /\ UNCHANGED trained
    /\ bidx' = 0
    /\ UNCHANGED <<epochs, start_epoch, epoch, train_loader, val_loader, total_samples,
                   params, bn_buffers, ckpt_files, log, run, resumed_from, events,
                   batchVars, decoderVars, metricVars>>

\* the training loader yields the next batch
TrainFetch ==
    /\ tpc = "train" /\ bpc = "next" /\ bidx < Len(train_loader)
    /\ FetchBatch(train_loader[bidx + 1], "t_collated")
    /\ tpc' = AfterStep
    /\ UNCHANGED <<epochs, start_epoch, epoch, train_loader, val_loader, bidx,
                   total_samples, params, bn_buffers, ckpt_files, log, run,
                   resumed_from, trained, events>>

\* optimizer.zero_grad(); outputs = model(mels) in training mode, where every
\* BatchNorm layer updates its running statistics
TrainForward ==
    /\ tpc = "train" /\ bpc = "t_collated"
    /\ ForwardStep("t_forwarded")
    /\ tpc' = AfterStep
    /\ bn_buffers' = IF bpc' = "failed" THEN bn_buffers ELSE bn_buffers + 1
    /\ events' = Append(events, Event("train", "forward"))
    /\ UNCHANGED <<epochs, start_epoch, epoch, train_loader, val_loader, bidx,
                   total_samples, params, ckpt_files, log, run, resumed_from, trained>>

\* loss = criterion(...)
TrainLoss ==
    /\ tpc = "train" /\ bpc = "t_forwarded"
    /\ LossStep("t_lossed")
    /\ tpc' = AfterStep
    /\ events' = Append(events, Event("train", "loss"))
    /\ UNCHANGED <<epochs, start_epoch, epoch, train_loader, val_loader, bidx,
                   total_samples, params, bn_buffers, ckpt_files, log, run,
                   resumed_from, trained>>

\* loss.backward(): gradients only
TrainBackward ==
    /\ tpc = "train" /\ bpc = "t_lossed"
    /\ bpc' = "t_backward"
    /\ events' = Append(events, Event("train", "backward"))
    /\ UNCHANGED <<max_length_frames, store, items, batch, outputs, loss, decoded_preds,
                   decoderVars, metricVars,
                   epochs, start_epoch, epoch, tpc, train_loader, val_loader, bidx,
                   total_samples, params, bn_buffers, ckpt_files, log, run,
                   resumed_from, trained>>

\* optimizer.step(); total_train_loss += loss.item(); audio_no += 1
TrainStep ==
    /\ tpc = "train" /\ bpc = "t_backward"
    /\ params' = OptimizerStep(params)
    /\ bidx' = bidx + 1
    /\ bpc' = "next"
    /\ events' = Append(events, Event("train", "step"))
    /\ UNCHANGED <<max_length_frames, store, items, batch, outputs, loss, decoded_preds,
                   decoderVars, metricVars,
                   epochs, start_epoch, epoch, tpc, train_loader, val_loader,
                   total_samples, bn_buffers, ckpt_files, log, run, resumed_from, trained>>

\* avg_train_loss = total_train_loss / len(train_loader); model.eval(); resets
TrainEnd ==
    /\ tpc = "train" /\ bpc = "next" /\ bidx = Len(train_loader)
    /\ tpc' = IF Len(train_loader) = 0 THEN "aborted" ELSE NextPhase("train")
    /\ bidx' = 0
    /\ total_samples' = 0
    /\ UNCHANGED <<epochs, start_epoch, epoch, train_loader, val_loader,
                   params, bn_buffers, ckpt_files, log, run, resumed_from, trained,
                   events, batchVars, decoderVars, metricVars>>

\* the validation loader yields the next batch
ValFetch ==
    /\ tpc = "val" /\ bpc = "next" /\ bidx < Len(val_loader)
    /\ FetchBatch(val_loader[bidx + 1], "collated")
    /\ tpc' = AfterStep
    /\ UNCHANGED <<epochs, start_epoch, epoch, train_loader, val_loader, bidx,
                   total_samples, params, bn_buffers, ckpt_files, log, run,
                   resumed_from, trained, events>>

\* outputs = model(mels) under model.eval() and torch.no_grad()
EpochValForward ==
    /\ tpc = "val" /\ bpc = "collated"
    /\ ForwardStep("forwarded")
    /\ tpc' = AfterStep
    /\ events' = Append(events, Event("val", "forward"))
    /\ UNCHANGED <<epochs, start_epoch, epoch, train_loader, val_loader, bidx,
                   total_samples, params, bn_buffers, ckpt_files, log, run,
                   resumed_from, trained>>

EpochValLoss ==
    /\ tpc = "val" /\ bpc = "forwarded"
    /\ LossStep("lossed")
    /\ tpc' = AfterStep
    /\ events' = Append(events, Event("val", "loss"))
    /\ UNCHANGED <<epochs, start_epoch, epoch, train_loader, val_loader, bidx,
                   total_samples, params, bn_buffers, ckpt_files, log, run,
                   resumed_from, trained>>

\* greedy_decoder, then cer and wer of every sample
EpochValDecode ==
    /\ tpc = "val" /\ bpc = "lossed"
    /\ DecodeStep
    /\ events' = Append(events, Event("val", "decode"))
    /\ UNCHANGED <<epochs, start_epoch, epoch, tpc, train_loader, val_loader, bidx,
                   total_samples, params, bn_buffers, ckpt_files, log, run,
                   resumed_from, trained>>

\* total_samples += len(labels); audio_no += 1
ValNext ==
    /\ tpc = "val" /\ bpc = "decoded"
    /\ total_samples' = total_samples + Len(batch.labels_padded)
    /\ bidx' = bidx + 1
    /\ bpc' = "next"
    /\ events' = Append(events, Event("val", "metrics"))
    /\ UNCHANGED <<max_length_frames, store, items, batch, outputs, loss, decoded_preds,
                   decoderVars, metricVars,
                   epochs, start_epoch, epoch, tpc, train_loader, val_loader,
                   params, bn_buffers, ckpt_files, log, run, resumed_from, trained>>

\* avg_val_loss = ... / len(val_loader); avg_cer = total_cer / total_samples; ...
ValEnd ==
    /\ tpc = "val" /\ bpc = "next" /\ bidx = Len(val_loader)
    /\ tpc' = IF Len(val_loader) = 0 \/ total_samples = 0
                THEN "aborted" ELSE NextPhase("val")
    /\ UNCHANGED <<epochs, start_epoch, epoch, train_loader, val_loader, bidx,
                   total_samples, params, bn_buffers, ckpt_files, log, run,
                   resumed_from, trained, events, batchVars, decoderVars, metricVars>>

\* save_checkpoint: torch.save opens the final path and starts writing
SaveBegin ==
    /\ tpc = "save"
    /\ ckpt_files' = [ckpt_files EXCEPT ![epoch] = [NoCheckpoint EXCEPT !.status = "partial"]]
    /\ tpc' = "saving"
    /\ events' = Append(events, Event("save", "open"))
    /\ UNCHANGED <<epochs, start_epoch, epoch, train_loader, val_loader, bidx,
                   total_samples, params, bn_buffers, log, run, resumed_from, trained,
                   batchVars, decoderVars, metricVars>>

\* torch.save has written {'epoch', 'state_dict', 'optimizer'} and closed the file
SaveEnd ==
    /\ tpc = "saving"
    /\ ckpt_files' = [ckpt_files EXCEPT ![epoch] =
                        [status |-> "complete", epoch |-> epoch,
                         state_dict |-> params.state_dict, buffers |-> bn_buffers,
                         optimizer |-> params.optimizer]]
    /\ tpc' = NextPhase("save")
    /\ events' = Append(events, Event("save", "written"))
    /\ UNCHANGED <<epochs, start_epoch, epoch, train_loader, val_loader, bidx,
                   total_samples, params, bn_buffers, log, run, resumed_from, trained,
                   batchVars, decoderVars, metricVars>>

\* the metrics line is appended; the for loop moves to the next epoch
LogAppend ==
    /\ tpc = "log"
    /\ log' = WriteLog(log, [epoch |-> epoch, samples |-> total_samples])
    /\ events' = Append(events, Event("log", "append"))
    /\ epoch' = epoch + 1
    /\ tpc' = NextPhase("log")
    /\ UNCHANGED <<epochs, start_epoch, train_loader, val_loader, bidx,
                   total_samples, params, bn_buffers, ckpt_files, run, resumed_from,
                   trained, batchVars, decoderVars, metricVars>>

NextTrain ==
    \/ LoopHead
    \/ TrainFetch \/ TrainForward \/ TrainLoss \/ TrainBackward \/ TrainStep \/ TrainEnd
    \/ ValFetch \/ EpochValForward \/ EpochValLoss \/ EpochValDecode \/ ValNext \/ ValEnd
    \/ SaveBegin \/ SaveEnd \/ LogAppend

SpecTrain == InitTrain /\ [][NextTrain]_vars

(***************************************************************************)
(* Runs of the notebook: a run can be interrupted at any step, and the     *)
(* execution cell can be run again, from scratch or from a checkpoint.     *)
(* The checkpoint files and training_metrics.txt stay on disk between runs.*)
(***************************************************************************)
InitResume ==
    /\ InitLoop
    /\ train_loader = << <<1>> >>
    /\ val_loader = << <<2>> >>

\* the process is killed (or torch.save raises) at some step of the loop: a file
\* that torch.save had opened at its final path keeps what was written so far
Crash ==
    /\ tpc \in {"train", "val", "save", "saving", "log"}
    /\ tpc' = "crashed"
    /\ UNCHANGED <<epochs, start_epoch, epoch, train_loader, val_loader, bidx,
                   total_samples, params, bn_buffers, ckpt_files, log, run,
                   resumed_from, trained, events, batchVars, decoderVars, metricVars>>

CompleteCheckpoints == {e \in EpochRange : ckpt_files[e].status = "complete"}

\* what the execution cell sets up before train_and_validate is called
RunSetup(se) ==
    /\ run' = run + 1
    /\ start_epoch' = se
    /\ epoch' = se
    /\ tpc' = "epoch"
    /\ bidx' = 0
    /\ total_samples' = 0
    /\ events' = <<>>
    /\ items' = <<>>
    /\ batch' = NoBatch
    /\ outputs' = NoOutputs
    /\ loss' = NoLoss
    /\ decoded_preds' = <<>>
    /\ bpc' = "next"
    /\ UNCHANGED <<epochs, train_loader, val_loader, ckpt_files, log, trained,
                   max_length_frames, store, decoderVars, metricVars>>

\* the cell is run again as it stands: a new model and optimizer, start_epoch = 0
RestartFresh ==
    /\ tpc \in {"done", "crashed", "aborted"}
    /\ run < MaxRuns
    /\ RunSetup(0)
    /\ params' = InitialParams
    /\ bn_buffers' = 0
    /\ resumed_from' = -1

\* the cell is run with torch.load and load_checkpoint uncommented.
\* load_checkpoint restores 'state_dict' and 'optimizer' and does not read
\* 'epoch'; start_epoch is a literal that the user writes into the cell
RestartFromCheckpoint ==
    /\ tpc \in {"done", "crashed", "aborted"}
    /\ run < MaxRuns
    /\ \E e \in CompleteCheckpoints :
          /\ params' = [state_dict |-> ckpt_files[e].state_dict,
                        optimizer  |-> ckpt_files[e].optimizer]
          /\ bn_buffers' = ckpt_files[e].buffers
          /\ resumed_from' = e
          /\ \E se \in {0, ckpt_files[e].epoch, ckpt_files[e].epoch + 1} :
                se <= epochs /\ RunSetup(se)

NextResume == NextTrain \/ Crash \/ RestartFresh \/ RestartFromCheckpoint

SpecResume == InitResume /\ [][NextResume]_vars

(***************************************************************************)
(* Properties of batch assembly and of the lengths used by the loop.       *)
(***************************************************************************)
\* true (pre-padding) frame counts of the samples in the batch
TrueLengths == [i \in 1..Len(items) |-> store[i].frames]

Collated == bpc = "collated"

\* C8: batch assembly over samples of differing true lengths succeeds, the
\* padded stack's time dimension is the largest true length, and the
\* input-length vector holds the true lengths (for [5, 8, 3]: 8 and [5, 8, 3]).
C8_TrueLengthsReturned ==
    (bpc \in {"collated", "failed"} /\ batch # NoBatch
        /\ \E i, j \in 1..Len(items) : TrueLengths[i] # TrueLengths[j])
    => /\ batch.ok
       /\ BatchTimeDim(batch) = SeqMax(TrueLengths)
       /\ batch.input_lengths = TrueLengths

\* C9 as stated: an empty batch, a sample with T_i <= 0 or a sample with
\* L_i <= 0 makes custom_collate_fn fail.
C9_RejectsEmptyAndZeroLengths ==
    (bpc \in {"collated", "failed"} /\ batch # NoBatch
        /\ \/ items = <<>>
           \/ \E i \in 1..Len(items) : TrueLengths[i] <= 0
           \/ \E i \in 1..Len(items) : items[i].label_length <= 0)
    => ~batch.ok

\* C9 amended: custom_collate_fn fails exactly when the batch is empty; zero
\* true frames or an empty label do not make it fail, and the sample is
\* assembled with label length 0 / the padded input length.
C9_RejectsOnlyEmptyBatch ==
    (bpc \in {"collated", "failed"} /\ batch # NoBatch)
    => /\ (items = <<>> => ~batch.ok /\ batch.error = "ValueError" /\ bpc = "failed")
       /\ (items # <<>> =>
              /\ batch.ok
              /\ Len(batch.input_lengths) = Len(items)
              /\ \A i \in 1..Len(items) :
                    /\ batch.label_lengths[i] = Len(store[i].label)
                    /\ batch.input_lengths[i] = max_length_frames)

C9_Witness ==
    bpc = "failed" /\ items = <<>> /\ ~batch.ok /\ batch.error = "ValueError"

\* output timesteps of sample i whose receptive field (input frames 4w-3 ..
\* 4w+6 for 0-based timestep w) holds at least one true frame
TrueOutLen(i) ==
    LET kept == items[i].mfccs.data
        Tp   == CrnnOutLen(TimeLen(items[i].mfccs))
    IN IF kept = 0 THEN 0 ELSE Min(Tp, ((kept + 2) \div 4) + 1)

\* C10: padded regions never reach the loss or the decoder: for every sample
\* (stated here for the samples that have at least one true frame) the input
\* length handed to the CTC loss and the timesteps scanned by greedy_decoder
\* cover only timesteps derived from true frames.
C10_PaddingNeverContributes ==
    /\ (loss.ok =>
           \A i \in 1..Len(loss.input_lengths) :
               store[i].frames >= 1 => loss.input_lengths[i] <= TrueOutLen(i))
    /\ (bpc = "decoded" =>
           \A i \in 1..Len(decoded_preds) :
               store[i].frames >= 1 => decoded_preds[i].scanned <= TrueOutLen(i))

(***************************************************************************)
(* Labels in validation, and the length handed to the loss.                *)
(***************************************************************************)
\* decode_label: ''.join(inv_vocab[id] for id in encoded_label if id not in (0, 1))
decode_label(encoded_label) ==
    LET kept(id) == id \notin {0, 1}
        ids == SelectSeq(encoded_label, kept)
    IN [i \in 1..Len(ids) |-> inv_vocab[ids[i]]]

\* C16: the target rebuilt in the validation loop from the padded label row,
\* and decode_label(encode_label(label)), equal the stored label string.
C16_TargetIsTrueLabel ==
    bpc = "decoded" =>
        \A i \in 1..Len(decoded_preds) :
            /\ decoded_preds[i].target = store[i].label
            /\ decode_label(encode_label(store[i].label)) = store[i].label

\* C17: the input length handed to the CTC loss is the encoder's output length
\* floor(floor(T / 2) / 2) for the configured frame cap T.
C17_LossLengthIsOutputLength ==
    (loss # NoLoss /\ outputs.ok) =>
        \A i \in 1..Len(loss.input_lengths) :
            /\ loss.input_lengths[i] = CrnnOutLen(max_length_frames)
            /\ loss.input_lengths[i] = Len(outputs.paths[i])

(***************************************************************************)
(* Properties of the epoch loop.                                           *)
(***************************************************************************)
\* the store indices of the batch being processed
CurrentBatch ==
    IF tpc = "train" THEN train_loader[bidx + 1] ELSE val_loader[bidx + 1]

InBatch == tpc \in {"train", "val"} /\ bpc \notin {"next", "failed"}

LossInvoked == InBatch /\ loss # NoLoss

\* C11: a batch that breaks the input contract (a label longer than the encoder
\* output, an empty batch, length vectors that do not match the batch) is refused
\* before the loss is computed, and no sample content is cut silently: whenever
\* the loss has been invoked every label fits the output timesteps, and every
\* fetched item holds all the frames of its stored sample.
C11_ContractViolationsRejected ==
    InBatch =>
        /\ Len(items) > 0
        /\ Len(batch.label_lengths) = Len(items)
        /\ \A k \in 1..Len(items) :
              /\ items[k].mfccs.data = store[CurrentBatch[k]].frames
              /\ LossInvoked => batch.label_lengths[k] <= Len(outputs.paths[k])

EpochsRun == start_epoch..(epochs - 1)

HasEvent(e, phase, b, step) ==
    \E i \in 1..Len(events) :
        events[i] = [epoch |-> e, phase |-> phase, batch |-> b, step |-> step]

HasLogLine(e) == \E i \in 1..Len(log) : log[i].epoch = e

IsMalformed(idx) == CtcRequired(encode_label(store[idx].label)) > processed_seq_length

\* every position of the loop short of "done" has a next step to take
CanGoOn ==
    \/ tpc \in {"epoch", "save", "saving", "log", "done"}
    \/ /\ tpc = "train"
       /\ \/ bpc = "next" /\ bidx <= Len(train_loader)
          \/ bpc \in {"t_collated", "t_forwarded", "t_lossed", "t_backward"}
    \/ /\ tpc = "val"
       /\ \/ bpc = "next" /\ bidx <= Len(val_loader)
          \/ bpc \in {"collated", "forwarded", "lossed", "decoded"}

\* C12: one sample whose label cannot be aligned to the output timesteps does not
\* abort the epoch: its loss is zeroed, no step raises, the loop can always go on
\* until it is done, and then every batch of every epoch has been processed and
\* every epoch has its checkpoint and its metrics line.
C12_MalformedSampleDoesNotAbort ==
    /\ tpc # "aborted" /\ bpc # "failed"
    /\ (loss # NoLoss) => loss.ok
    /\ CanGoOn
    /\ (tpc = "done") =>
          \A e \in EpochsRun :
              /\ \A b \in 1..Len(train_loader) : HasEvent(e, "train", b - 1, "step")
              /\ \A b \in 1..Len(val_loader) : HasEvent(e, "val", b - 1, "metrics")
              /\ ckpt_files[e].status = "complete"
              /\ HasLogLine(e)

C12_Witness ==
    /\ tpc = "done"
    /\ Len(log) = 2
    /\ Len(val_loader) = 2 /\ IsMalformed(val_loader[1][1])
    /\ \A e \in EpochsRun :
          HasEvent(e, "val", 0, "loss") /\ HasEvent(e, "val", 1, "metrics")

C12_WitnessTrain ==
    /\ tpc = "done"
    /\ Len(train_loader) = 2 /\ IsMalformed(train_loader[1][1])
    /\ \A e \in EpochsRun :
          HasEvent(e, "train", 0, "step") /\ HasEvent(e, "train", 1, "step")

PhaseRank(phase) ==
    CASE phase = "train" -> 1 [] phase = "val" -> 2 [] phase = "save" -> 3
      [] phase = "log" -> 4

StepRank(step) ==
    CASE step = "forward" -> 1 [] step = "loss" -> 2
      [] step = "backward" -> 3 [] step = "decode" -> 3
      [] step = "step" -> 4 [] step = "metrics" -> 4
      [] step = "open" -> 1 [] step = "written" -> 2 [] step = "append" -> 1

\* lexicographic order on (epoch, phase, batch, step)
Before(x, y) ==
    \/ x.epoch < y.epoch
    \/ /\ x.epoch = y.epoch
       /\ \/ PhaseRank(x.phase) < PhaseRank(y.phase)
          \/ /\ x.phase = y.phase
             /\ \/ x.batch < y.batch
                \/ x.batch = y.batch /\ StepRank(x.step) < StepRank(y.step)

TrainSteps == {"forward", "loss", "backward", "step"}
ValSteps == {"forward", "loss", "decode", "metrics"}

\* C18: the epochs run in increasing order from start_epoch to epochs - 1, and
\* inside an epoch the steps come in the order training batches (forward, loss,
\* backward, optimizer step), validation batches (forward, loss, decode,
\* metrics), checkpoint save, metrics line, without overlap; the checkpoint of an
\* epoch is never written before all its training and validation batches.
C18_PhasesInOrder ==
    /\ \A i \in 1..Len(events) :
          /\ events[i].epoch \in EpochsRun
          /\ events[i].phase = "train" => events[i].step \in TrainSteps
          /\ events[i].phase = "val" => events[i].step \in ValSteps
    /\ Len(events) > 0 => events[1] = [epoch |-> start_epoch, phase |-> "train",
                                       batch |-> 0, step |-> "forward"]
    /\ \A i \in 1..(Len(events) - 1) :
          /\ Before(events[i], events[i + 1])
          /\ events[i + 1].epoch \in {events[i].epoch, events[i].epoch + 1}
          /\ events[i + 1].epoch = events[i].epoch + 1 => events[i].phase = "log"
    /\ \A e \in EpochRange :
          (HasEvent(e, "save", 0, "open") \/ ckpt_files[e].status # "absent") =>
              /\ \A b \in 1..Len(train_loader) :
                    \A st \in TrainSteps : HasEvent(e, "train", b - 1, st)
              /\ \A b \in 1..Len(val_loader) :
                    \A st \in ValSteps : HasEvent(e, "val", b - 1, st)
    /\ \A e \in EpochRange :
          HasLogLine(e) => ckpt_files[e].status = "complete"
    /\ tpc = "done" => epoch = Max(start_epoch, epochs) /\ Len(log) = epochs - start_epoch

C18_Witness ==
    /\ tpc = "done"
    /\ epochs - start_epoch = 2
    /\ Len(train_loader) = 2
    /\ Len(events) >= 2 * (4 * 2 + 4 + 2 + 1)

StepsTaken == Cardinality({i \in 1..Len(events) : events[i].step = "step"})

\* C19: the parameters and the optimizer state change only in optimizer.step()
\* of the training phase, by one update for each training batch; every other step
\* (validation forward, decoding, metrics, checkpoint save, metrics line) leaves
\* them as they are, and outside training the BatchNorm statistics stay as well.
C19_OnlyOptimizerStepUpdates ==
    [][ /\ params' # params =>
              /\ tpc = "train" /\ bpc = "t_backward"
              /\ params'.state_dict = params.state_dict + 1
              /\ params'.optimizer = params.optimizer + 1
        /\ (tpc = "train" /\ bpc = "t_backward") => params' # params
        /\ tpc # "train" => bn_buffers' = bn_buffers
        /\ params'.state_dict = StepsTaken' /\ params'.optimizer = StepsTaken'
      ]_vars

C19_Witness ==
    /\ tpc = "done"
    /\ params.state_dict = 4
    /\ Len(train_loader) = 2
    /\ ckpt_files[1].state_dict = 4 /\ ckpt_files[0].state_dict = 2

(***************************************************************************)
(* Properties of checkpoints, resumed runs and the metrics file.           *)
(***************************************************************************)
LinesOf(e) == Cardinality({i \in 1..Len(log) : log[i].epoch = e})

\* the first epoch the current run has started, if it has started one
FirstEpochRun == IF Len(events) > 0 THEN events[1].epoch ELSE -1

\* C13: a run that loads the checkpoint written at the end of epoch e and takes
\* the epoch index stored in that checkpoint as its start_epoch executes epoch
\* e + 1 first, and epoch e has been trained exactly once overall.  Only epochs
\* that were completed, metrics line included, before the resume are considered.
C13_ResumeSkipsCompletedEpoch ==
    (resumed_from >= 0 /\ start_epoch = ckpt_files[resumed_from].epoch
        /\ LinesOf(resumed_from) >= 1
        /\ Len(events) > 0) =>
        /\ FirstEpochRun = resumed_from + 1
        /\ trained[resumed_from] = 1

\* C14: when writing a checkpoint fails part-way, no partly written file is left
\* at the checkpoint's final path.
C14_NoPartialCheckpoint ==
    tpc = "crashed" => \A e \in EpochRange : ckpt_files[e].status # "partial"

\* C15: the metrics file is only ever appended to, one line per epoch, and after
\* any sequence of runs, interrupted or resumed, it holds exactly one line for
\* every epoch that has a saved checkpoint.
C15_OneLinePerCheckpoint ==
    /\ \A e \in EpochRange :
          (ckpt_files[e].status = "complete" /\ tpc \in {"done", "crashed", "aborted"})
              => LinesOf(e) = 1
    /\ \A e \in EpochRange : LinesOf(e) <= 1

====
